---- MODULE Spec2Model ----
(***************************************************************************)
(* The ETL pipeline of main.py (run_etl), the rule-driven table normalizer *)
(* of transformers/data_normalizer.py (DataNormalizer.normalize) and the   *)
(* connection handling of extractors/ftp_extractor.py (FTPExtractor).      *)
(*                                                                         *)
(* Text (column names, cell strings) is a sequence of one-character        *)
(* strings, so that strip / lower / replace are computed, not assumed.     *)
(* A table is [cols, rows]: cols is the sequence of column names (pandas   *)
(* allows repeated names), rows the sequence of rows; a row carries the    *)
(* source it was extracted from (src), its pandas index label (idx) and    *)
(* its cell values (vals, aligned with cols).                              *)
(***************************************************************************)
EXTENDS Integers, Sequences, FiniteSets, TLC

\* ------------------------------------------------------------------ bounds
MaxSources == 2     \* configured sources per run
MaxRows == 2        \* rows of a table handed to normalize

\* -------------------------------------------------------------------- text
Whitespace == {" ", "\t"}

Digits == {"0", "1", "2", "3", "4", "5", "6", "7", "8", "9"}

LowerChar(c) ==
    CASE c = "A" -> "a"
      [] c = "B" -> "b"
      [] c = "D" -> "d"
      [] c = "I" -> "i"
      [] c = "T" -> "t"
      [] OTHER -> c

UpperChars == {"A", "B", "D", "I", "T"}

RECURSIVE LStrip(_)
LStrip(s) == IF s # <<>> /\ Head(s) \in Whitespace THEN LStrip(Tail(s)) ELSE s

RECURSIVE RStrip(_)
RStrip(s) ==
    IF s # <<>> /\ s[Len(s)] \in Whitespace
    THEN RStrip(SubSeq(s, 1, Len(s) - 1))
    ELSE s

\* str.strip()
Strip(s) == RStrip(LStrip(s))

\* str.lower()
Lower(s) == [j \in 1..Len(s) |-> LowerChar(s[j])]

\* str.replace(' ', '_')
ReplaceSpaces(s) == [j \in 1..Len(s) |-> IF s[j] = " " THEN "_" ELSE s[j]]

\* ------------------------------------------------------------- cell values
NULL == [k |-> "null", s |-> <<>>]

Str(s) == [k |-> "str", s |-> s]

IsNull(v) == v.k = "null"

\* A string pandas parses as a date: the ISO form dddd-dd-dd.
IsDate(s) ==
    /\ Len(s) = 10
    /\ \A j \in 1..10 : IF j \in {5, 8} THEN s[j] = "-" ELSE s[j] \in Digits

\* A string pandas parses as a number: digits, surrounding blanks allowed.
IsNumeric(s) == Strip(s) # <<>> /\ \A j \in 1..Len(Strip(s)) : Strip(s)[j] \in Digits

\* pd.to_datetime(..., errors='coerce') on one value
ToDatetime(v) ==
    CASE v.k = "str" -> IF IsDate(v.s) THEN [k |-> "ts", s |-> v.s] ELSE NULL
      [] v.k = "num" -> [k |-> "ts", s |-> v.s]
      [] OTHER -> v

\* pd.to_numeric(..., errors='coerce') on one value
ToNumeric(v) ==
    CASE v.k = "str" -> IF IsNumeric(v.s) THEN [k |-> "num", s |-> Strip(v.s)] ELSE NULL
      [] v.k = "ts" -> [k |-> "num", s |-> v.s]
      [] OTHER -> v

\* ------------------------------------------------------------------ tables
EmptyTable == [cols |-> <<>>, rows |-> <<>>]

\* col in df.columns
HasCol(t, name) == \E j \in 1..Len(t.cols) : t.cols[j] = name

\* the subsequence of seq at the positions in keep, in order
RECURSIVE Pick(_, _, _)
Pick(seq, keep, j) ==
    IF j > Len(seq) THEN <<>>
    ELSE (IF j \in keep THEN <<seq[j]>> ELSE <<>>) \o Pick(seq, keep, j + 1)

\* the cells of a row in the columns named in subset (all columns: subset = None)
KeyOf(t, row, subset) ==
    [j \in {c \in 1..Len(t.cols) : t.cols[c] \in subset} |-> row.vals[j]]

\* DataFrame.drop_duplicates(subset): keep='first', null equal to null
DropDuplicates(t, subset) ==
    [t EXCEPT !.rows =
        Pick(t.rows,
             {j \in 1..Len(t.rows) :
                 \A h \in 1..(j - 1) :
                     KeyOf(t, t.rows[h], subset) # KeyOf(t, t.rows[j], subset)},
             1)]

AllCols(t) == {t.cols[j] : j \in 1..Len(t.cols)}

\* DataFrame.dropna(subset=subset, how='all'), for a subset present in df
DropNaAll(t, subset) ==
    [t EXCEPT !.rows =
        Pick(t.rows,
             {j \in 1..Len(t.rows) :
                 \E c \in 1..Len(t.cols) :
                     t.cols[c] \in subset /\ ~IsNull(t.rows[j].vals[c])},
             1)]

\* for col in date_columns: if col in df.columns: df[col] = pd.to_datetime(...)
ConvertDates(t, names) ==
    [t EXCEPT !.rows =
        [r \in 1..Len(t.rows) |->
            [t.rows[r] EXCEPT !.vals =
                [c \in 1..Len(t.cols) |->
                    IF t.cols[c] \in names THEN ToDatetime(t.rows[r].vals[c])
                    ELSE t.rows[r].vals[c]]]]]

\* for col in numeric_columns: if col in df.columns: df[col] = pd.to_numeric(...)
ConvertNumerics(t, names) ==
    [t EXCEPT !.rows =
        [r \in 1..Len(t.rows) |->
            [t.rows[r] EXCEPT !.vals =
                [c \in 1..Len(t.cols) |->
                    IF t.cols[c] \in names THEN ToNumeric(t.rows[r].vals[c])
                    ELSE t.rows[r].vals[c]]]]]

\* select_dtypes(include=['object']): a column read as text holds a string
IsObjectCol(t, c) == \E r \in 1..Len(t.rows) : t.rows[r].vals[c].k = "str"

\* x.str.strip() on one cell of an object column
StrStrip(v) == IF v.k = "str" THEN Str(Strip(v.s)) ELSE NULL

StripObjectCols(t) ==
    [t EXCEPT !.rows =
        [r \in 1..Len(t.rows) |->
            [t.rows[r] EXCEPT !.vals =
                [c \in 1..Len(t.cols) |->
                    IF IsObjectCol(t, c) THEN StrStrip(t.rows[r].vals[c])
                    ELSE t.rows[r].vals[c]]]]]

\* DataFrame.rename(columns=mapping): all entries at once, absent keys ignored
Rename(t, mapping) ==
    [t EXCEPT !.cols =
        [c \in 1..Len(t.cols) |->
            IF t.cols[c] \in DOMAIN mapping THEN mapping[t.cols[c]] ELSE t.cols[c]]]

\* df[col] = df[col].fillna(default) for each default whose column is present
FillDefaults(t, defaults) ==
    [t EXCEPT !.rows =
        [r \in 1..Len(t.rows) |->
            [t.rows[r] EXCEPT !.vals =
                [c \in 1..Len(t.cols) |->
                    IF t.cols[c] \in DOMAIN defaults /\ IsNull(t.rows[r].vals[c])
                    THEN defaults[t.cols[c]]
                    ELSE t.rows[r].vals[c]]]]]

\* ------------------------------------------------------- DataNormalizer
\* mutant: the names are not stripped
StandardizeNoStrip(col) == ReplaceSpaces(Lower(col))

\* col.strip().lower().replace(' ', '_')
StandardizeName(col) == ReplaceSpaces(Lower(Strip(col)))

etl_loaded_at == <<"e","t","l","_","l","o","a","d","e","d","_","a","t">>

\* pd.Timestamp.now() read at clock value n
Stamp(n) == [k |-> "ts", s |-> <<"@", CHOOSE d \in Digits : d = ToString(n)>>]

\* df['etl_loaded_at'] = now: overwrites a column of that name, else appends one
AddAudit(t, now) ==
    IF HasCol(t, etl_loaded_at)
    THEN [t EXCEPT !.rows =
            [r \in 1..Len(t.rows) |->
                [t.rows[r] EXCEPT !.vals =
                    [c \in 1..Len(t.cols) |->
                        IF t.cols[c] = etl_loaded_at THEN now
                        ELSE t.rows[r].vals[c]]]]]
    ELSE [cols |-> Append(t.cols, etl_loaded_at),
          rows |-> [r \in 1..Len(t.rows) |->
                      [t.rows[r] EXCEPT !.vals = Append(t.rows[r].vals, now)]]]

\* rules.get(key, default) of a rule set given as a record with every key
NoRules ==
    [required_columns |-> {}, date_columns |-> {}, numeric_columns |-> {},
     column_mapping |-> <<>>, default_values |-> <<>>]

\* step 1: df.columns = [standardized names]
StandardizeColumns(df) ==
    [df EXCEPT !.cols = [c \in 1..Len(df.cols) |-> StandardizeName(df.cols[c])]]

\* step 3: dropna(subset=required_cols, how='all') raises KeyError for a
\* label of the subset that is not a column
DropnaRaises(t, rules) ==
    rules.required_columns # {} /\ ~(rules.required_columns \subseteq AllCols(t))

\* steps 4 to 8, on the table left by steps 1 to 3
Convert(t3, rules, now) ==
    LET t4 == ConvertDates(t3, rules.date_columns)
        t5 == ConvertNumerics(t4, rules.numeric_columns)
        t6 == StripObjectCols(t5)
        t7 == Rename(t6, rules.column_mapping)
        t8 == FillDefaults(t7, rules.default_values)
    IN  AddAudit(t8, now)

\* DataNormalizer.normalize: [raised, df]
Normalize(df, rules, now) ==
    LET t1 == StandardizeColumns(df)
        t2 == DropDuplicates(t1, AllCols(t1))
    IN  IF DropnaRaises(t2, rules)
        THEN [raised |-> "KeyError", df |-> EmptyTable]
        ELSE [raised |-> "none",
              df |-> Convert(IF rules.required_columns # {}
                             THEN DropNaAll(t2, rules.required_columns)
                             ELSE t2,
                             rules, now)]

\* --------------------------------------------------------- FTPExtractor
\* What the remote server does during one extract() call: the step that
\* fails ("none": every step succeeds), whether the QUIT command fails, and
\* the table pd.read_csv parses from the remote file.
FtpSteps == {"connect", "login", "retr", "parse"}

SftpSteps == {"connect", "open_sftp", "retr", "parse"}

Err(type, at) == [type |-> type, at |-> at]

NoErr == Err("none", "none")

\* FTPExtractor.__init__: the descriptor keys read without a default
InitRaises(cfg) == ~cfg.keys_ok

\* _connect_ftp with _extract_ftp: the connection made by ftp.connect is
\* returned to _extract_ftp only after ftp.login succeeded; ftp.quit() sends
\* QUIT and closes the socket only if the command went through.
ExtractFtp(env) ==
    CASE env.fail = "connect" ->
            [raised |-> Err("OSError", "extract"), df |-> EmptyTable, open |-> {}]
      [] env.fail = "login" ->
            [raised |-> Err("error_perm", "extract"), df |-> EmptyTable,
             open |-> {"ftp"}]
      [] OTHER ->
            IF env.quit_fails
            THEN [raised |-> Err("EOFError", "extract"), df |-> EmptyTable,
                  open |-> {"ftp"}]
            ELSE IF env.fail = "retr"
            THEN [raised |-> Err("error_perm", "extract"), df |-> EmptyTable,
                  open |-> {}]
            ELSE IF env.fail = "parse"
            THEN [raised |-> Err("ParserError", "extract"), df |-> EmptyTable,
                  open |-> {}]
            ELSE [raised |-> NoErr, df |-> env.csv, open |-> {}]

\* _connect_sftp with _extract_sftp: ssh and sftp reach _extract_sftp only
\* as the pair returned after ssh.open_sftp succeeded.
ExtractSftp(env) ==
    CASE env.fail = "connect" ->
            [raised |-> Err("SSHException", "extract"), df |-> EmptyTable,
             open |-> {}]
      [] env.fail = "open_sftp" ->
            [raised |-> Err("SSHException", "extract"), df |-> EmptyTable,
             open |-> {"ssh"}]
      [] env.fail = "retr" ->
            [raised |-> Err("IOError", "extract"), df |-> EmptyTable, open |-> {}]
      [] env.fail = "parse" ->
            [raised |-> Err("ParserError", "extract"), df |-> EmptyTable,
             open |-> {}]
      [] OTHER -> [raised |-> NoErr, df |-> env.csv, open |-> {}]

\* FTPExtractor(server_cfg).extract(): path is the branch of the if / elif /
\* else on self.type that ran, net whether a connection to the server was
\* attempted (both _extract_ftp and _extract_sftp start by connecting).
Extract(cfg, env) ==
    LET via(path, x) ==
            [raised |-> x.raised, df |-> x.df, open |-> x.open,
             path |-> path, net |-> TRUE]
    IN  IF InitRaises(cfg)
        THEN [raised |-> Err("KeyError", "extract"), df |-> EmptyTable,
              open |-> {}, path |-> "none", net |-> FALSE]
        ELSE CASE cfg.type = "ftp" -> via("ftp", ExtractFtp(env))
               [] cfg.type = "sftp" -> via("sftp", ExtractSftp(env))
               [] OTHER -> [raised |-> Err("ValueError", "extract"),
                            df |-> EmptyTable, open |-> {},
                            path |-> "none", net |-> FALSE]

\* the server behaviours that differ for a descriptor of this type
Envs(type, files) ==
    CASE type = "ftp" ->
            [fail : FtpSteps \cup {"none"}, quit_fails : BOOLEAN, csv : files]
      [] type = "sftp" ->
            [fail : SftpSteps \cup {"none"}, quit_fails : {FALSE}, csv : files]
      [] OTHER -> [fail : {"none"}, quit_fails : {FALSE}, csv : files]

\* ---------------------------------------------------------------- run_etl
id == <<"i","d">>

transaction_id == <<"t","r","a","n","s","a","c","t","i","o","n","_","i","d">>

transaction_date ==
    <<"t","r","a","n","s","a","c","t","i","o","n","_","d","a","t","e">>

trans_date == <<"t","r","a","n","s","_","d","a","t","e">>

cust_name == <<"c","u","s","t","_","n","a","m","e">>

customer_name == <<"c","u","s","t","o","m","e","r","_","n","a","m","e">>

created_at == <<"c","r","e","a","t","e","d","_","a","t">>

\* the rule set run_etl builds its normalizer with
EtlRules ==
    [required_columns |-> {id, transaction_date},
     date_columns |-> {transaction_date, created_at},
     numeric_columns |-> {},
     column_mapping |-> (transaction_id :> id) @@ (trans_date :> transaction_date)
                            @@ (cust_name :> customer_name),
     default_values |-> <<>>]

\* Remote files as pd.read_csv returns them (RangeIndex from 0).
Date1 == <<"2","0","2","3","-","0","1","-","0","1">>

T1 == Str(<<"T","1">>)

T2 == Str(<<"T","2">>)

Row(n, vals) == [src |-> 0, idx |-> n, vals |-> vals]

FileA ==
    [cols |-> << <<"I","D">>,
                 <<"T","r","a","n","s","a","c","t","i","o","n"," ","D","a","t","e">> >>,
     rows |-> << Row(0, <<T1, Str(Date1)>>), Row(1, <<T2, Str(Date1)>>) >>]

FileB ==
    [cols |-> <<id, transaction_date, cust_name>>,
     rows |-> << Row(0, <<T2, Str(<<"b","a","d">>), Str(<<" ","x">>)>>),
                 Row(1, <<NULL, Str(Date1), Str(<<"x">>)>>) >>]

FileC ==
    [cols |-> <<transaction_id, trans_date>>,
     rows |-> << Row(0, <<T1, Str(Date1)>>) >>]

CsvFiles == {FileA, FileB, FileC}

\* the rows of the table extracted from source i
Tag(df, i) ==
    [df EXCEPT !.rows = [r \in 1..Len(df.rows) |-> [df.rows[r] EXCEPT !.src = i]]]

\* the value of a row of t in the column called name, null without one
Cell(t, row, name) ==
    IF HasCol(t, name)
    THEN row.vals[CHOOSE c \in 1..Len(t.cols) : t.cols[c] = name]
    ELSE NULL

RECURSIVE UnionCols(_, _)
UnionCols(dfs, k) ==
    IF k = 0 THEN <<>>
    ELSE LET prev == UnionCols(dfs, k - 1)
         IN  prev \o Pick(dfs[k].cols,
                          {c \in 1..Len(dfs[k].cols) :
                              \A h \in 1..Len(prev) : prev[h] # dfs[k].cols[c]},
                          1)

RECURSIVE ConcatRows(_, _, _)
ConcatRows(dfs, cols, k) ==
    IF k > Len(dfs) THEN <<>>
    ELSE [r \in 1..Len(dfs[k].rows) |->
            [dfs[k].rows[r] EXCEPT
                !.vals = [c \in 1..Len(cols) |-> Cell(dfs[k], dfs[k].rows[r], cols[c])]]]
         \o ConcatRows(dfs, cols, k + 1)

\* pd.concat(dfs, ignore_index=True): union of the columns in order of first
\* appearance, the tables' rows in list order, a fresh RangeIndex
Concat(dfs) ==
    LET cols == UnionCols(dfs, Len(dfs))
        rows == ConcatRows(dfs, cols, 1)
    IN  [cols |-> cols,
         rows |-> [r \in 1..Len(rows) |-> [rows[r] EXCEPT !.idx = r - 1]]]

\* mutant: the final deduplication never keys on id
DedupSubsetNone(t) == AllCols(t)

\* subset=['id'] if 'id' in combined_df.columns else None
DedupSubset(t) == IF HasCol(t, id) THEN {id} ELSE AllCols(t)

\* lines 80 to 82: the table handed to loader.load
Combine(dfs) == LET m == Concat(dfs) IN DropDuplicates(m, DedupSubset(m))

\* mutant: the emptiness test on all_dfs is gone
HasDataAlways(dfs) == TRUE

\* if all_dfs:
HasData(dfs) == dfs # <<>>

\* mutant: the try block covers the extraction only
CaughtExtractOnly(err) == err.at = "extract"

\* except Exception as e: logger.error(...); continue
CaughtInLoop(err) == err.type # "none"

\* mutant: test_connection logs the failure and returns
TestConnectionSwallows(probe_fails) == FALSE

\* MySQLLoader.test_connection: logs and re-raises whatever the probe raised
TestConnectionRaises(probe_fails) == probe_fails

\* A source descriptor of config['ftp_servers'].
Descriptors == [type : {"ftp", "sftp", "http"}, keys_ok : BOOLEAN]

RECURSIVE SeqsUpTo(_, _)
SeqsUpTo(S, n) ==
    IF n = 0 THEN {<<>>}
    ELSE LET shorter == SeqsUpTo(S, n - 1)
         IN  shorter \cup {Append(q, x) : q \in {p \in shorter : Len(p) = n - 1}, x \in S}

\* ------------------------------------------- inputs of the normalizer runs
RawA == <<"A">>

RawPadA == <<" ","a","\t">>

RawB == <<"b">>

RawAB == <<"a"," ","B">>

colA == <<"a">>

colB == <<"b">>

colC == <<"c">>

colAB == <<"a","_","b">>

Headers ==
    { <<RawA>>, <<RawPadA>>, <<RawB>>,
      <<RawA, RawB>>, <<RawB, RawPadA>>, <<RawAB, RawA>>, <<RawPadA, RawAB>> }

Vals == {NULL, Str(<<" ","x">>), Str(Date1)}

\* the well-formed tables over a header: every row has one value per column
TablesOver(h) ==
    {[cols |-> h, rows |-> [r \in 1..Len(q) |-> Row(r - 1, q[r])]] :
        q \in SeqsUpTo([1..Len(h) -> Vals], MaxRows)}

Tables == UNION {TablesOver(h) : h \in Headers}

Mappings ==
    { <<>>, (colA :> colB), (colA :> colC), (colA :> <<"B"," ","c">>),
      (colC :> colB), (colA :> colB) @@ (colB :> colA) }

Conversions ==
    { [date_columns |-> {}, numeric_columns |-> {}, default_values |-> <<>>],
      [date_columns |-> {colA, colC}, numeric_columns |-> {colB, colC},
       default_values |-> (colAB :> Str(<<"x">>)) @@ (colC :> Str(<<"x">>))] }

RuleSets ==
    {[required_columns |-> req, date_columns |-> cv.date_columns,
      numeric_columns |-> cv.numeric_columns, column_mapping |-> m,
      default_values |-> cv.default_values] :
        req \in {{}, {colA}, {colA, colB}, {colB, colC}},
        m \in Mappings, cv \in Conversions}

\* ------------------------------------------------------------------- state
VARIABLES
    bound,        \* names bound in main's module namespace when run_etl runs
    ftp_servers,  \* config['ftp_servers'] of the configuration file
    pc,           \* position of run_etl
    i,            \* position of the per-source loop, from 1
    all_dfs,      \* the normalized tables collected so far
    outcomes,     \* per attempted source: its position and the error it raised
    log,          \* records logged by run_etl and test_connection
    raised,       \* the error that left run_etl, NoErr if none
    tested,       \* test_connection: "no" (not called), "ok", "failed"
    loaded,       \* the table passed to loader.load
    load_calls,   \* number of calls of loader.load
    open,         \* connections opened by extract() calls and not closed
    clock,        \* wall clock read by pd.Timestamp.now()
    n_pc,         \* a normalize() call on its own: "ready", "done"
    n_df,         \* its input table
    n_rules,      \* its rule set
    n_out         \* its result [raised, df]

vars ==
    <<bound, ftp_servers, pc, i, all_dfs, outcomes, log, raised, tested, loaded,
      load_calls, open, clock, n_pc, n_df, n_rules, n_out>>

runVars ==
    <<bound, ftp_servers, pc, i, all_dfs, outcomes, log, raised, tested, loaded,
      load_calls, open, clock>>

normVars == <<n_pc, n_df, n_rules, n_out>>

NoResult == [raised |-> "none", df |-> EmptyTable]

RunStart(p) ==
    /\ pc = p
    /\ i = 1
    /\ all_dfs = <<>>
    /\ outcomes = <<>>
    /\ log = <<>>
    /\ raised = NoErr
    /\ tested = "no"
    /\ loaded = EmptyTable
    /\ load_calls = 0
    /\ open = {}
    /\ clock = 0

\* main.py binds neither yaml nor pd itself (its lines 2 and 3 are comments):
\* either name resolves only if the importing program has bound it.
Init ==
    /\ bound \in SUBSET {"yaml", "pd"}
    /\ ftp_servers \in SeqsUpTo(Descriptors, MaxSources)
    /\ RunStart("load_config")
    /\ n_pc = "off" /\ n_df = EmptyTable /\ n_rules = NoRules /\ n_out = NoResult

InitNorm ==
    /\ bound = {} /\ ftp_servers = <<>>
    /\ RunStart("off")
    /\ n_pc = "ready"
    /\ n_df \in Tables
    /\ n_rules \in RuleSets
    /\ n_out = NoResult

\* ----------------------------------------------------------------- actions
Abort(err) == raised' = err /\ pc' = "done"

\* load_config(): open(config_path), then yaml.safe_load; then the lookups
\* config['mysql'] and config['ftp_servers']
LoadConfig ==
    /\ pc = "load_config"
    /\ \E file_ok \in BOOLEAN, keys_present \in BOOLEAN :
        IF ~file_ok THEN Abort(Err("FileNotFoundError", "load_config"))
        ELSE IF "yaml" \notin bound THEN Abort(Err("NameError", "load_config"))
        ELSE IF ~keys_present THEN Abort(Err("KeyError", "load_config"))
        ELSE pc' = "create_loader" /\ raised' = raised
    /\ UNCHANGED <<bound, ftp_servers, i, all_dfs, outcomes, log, tested, loaded,
                   load_calls, open, clock>>
    /\ UNCHANGED normVars

\* MySQLLoader(mysql_config, table_name="etl_data")
CreateLoader ==
    /\ pc = "create_loader"
    /\ \E engine_ok \in BOOLEAN :
        IF engine_ok THEN pc' = "test_connection" /\ raised' = raised
        ELSE Abort(Err("KeyError", "create_loader"))
    /\ UNCHANGED <<bound, ftp_servers, i, all_dfs, outcomes, log, tested, loaded,
                   load_calls, open, clock>>
    /\ UNCHANGED normVars

\* loader.test_connection()
TestConnection ==
    /\ pc = "test_connection"
    /\ \E probe_fails \in BOOLEAN :
        /\ tested' = IF probe_fails THEN "failed" ELSE "ok"
        /\ log' = IF probe_fails
                  THEN Append(log, [level |-> "error", about |-> 0])
                  ELSE log
        /\ IF TestConnectionRaises(probe_fails)
           THEN Abort(Err("OperationalError", "test_connection"))
           ELSE pc' = "loop" /\ raised' = raised
    /\ UNCHANGED <<bound, ftp_servers, i, all_dfs, outcomes, loaded, load_calls,
                   open, clock>>
    /\ UNCHANGED normVars

\* one pass of "for server_cfg in ftp_servers": extract, normalize, collect
ProcessSource ==
    /\ pc = "loop"
    /\ i <= Len(ftp_servers)
    /\ \E env \in Envs(ftp_servers[i].type, CsvFiles), tick \in {0, 1} :
        LET x == Extract(ftp_servers[i], env)
            n == IF x.raised = NoErr
                 THEN Normalize(Tag(x.df, i), EtlRules, Stamp(clock))
                 ELSE NoResult
            err == IF x.raised # NoErr THEN x.raised
                   ELSE IF n.raised # "none" THEN Err(n.raised, "normalize")
                   ELSE NoErr
        IN  /\ outcomes' = Append(outcomes, [src |-> i, err |-> err,
                                              path |-> x.path, net |-> x.net])
            /\ open' = open \cup {<<i, c>> : c \in x.open}
            /\ clock' = clock + tick
            /\ IF err = NoErr
               THEN /\ all_dfs' = Append(all_dfs, n.df)
                    /\ UNCHANGED <<log, raised, pc>>
                    /\ i' = i + 1
               ELSE IF CaughtInLoop(err)
               THEN /\ log' = Append(log, [level |-> "error", about |-> i])
                    /\ UNCHANGED <<all_dfs, raised, pc>>
                    /\ i' = i + 1
               ELSE /\ Abort(err)
                    /\ UNCHANGED <<all_dfs, log, i>>
    /\ UNCHANGED <<bound, ftp_servers, tested, loaded, load_calls>>
    /\ UNCHANGED normVars

\* after the loop: "if all_dfs:" concat, drop_duplicates, load; else warn
MergeAndLoad ==
    /\ pc = "loop"
    /\ i > Len(ftp_servers)
    /\ pc' = "done"
    /\ IF HasData(all_dfs)
       THEN IF "pd" \notin bound
            THEN /\ raised' = Err("NameError", "merge")
                 /\ UNCHANGED <<log, loaded, load_calls>>
            ELSE \E load_fails \in BOOLEAN :
                 /\ loaded' = Combine(all_dfs)
                 /\ load_calls' = load_calls + 1
                 /\ raised' = IF load_fails THEN Err("SQLAlchemyError", "load")
                              ELSE raised
                 /\ log' = IF load_fails THEN log
                           ELSE Append(log, [level |-> "info", about |-> 0])
       ELSE /\ log' = Append(log, [level |-> "warning", about |-> 0])
            /\ UNCHANGED <<raised, loaded, load_calls>>
    /\ UNCHANGED <<bound, ftp_servers, i, all_dfs, outcomes, tested, open, clock>>
    /\ UNCHANGED normVars

\* DataNormalizer(rules).normalize(df)
NormalizeTable ==
    /\ n_pc = "ready"
    /\ n_out' = Normalize(n_df, n_rules, Stamp(clock))
    /\ n_pc' = "done"
    /\ UNCHANGED <<n_df, n_rules>>
    /\ UNCHANGED runVars

Next == LoadConfig \/ CreateLoader \/ TestConnection \/ ProcessSource \/ MergeAndLoad

Spec == Init /\ [][Next]_vars

NextNorm == NormalizeTable

SpecNorm == InitNorm /\ [][NextNorm]_vars

\* ================================================================== claims
Failed(o) == o.err # NoErr

\* run_etl got through the per-source loop (it ended in MergeAndLoad)
LoopFinished == pc = "done" /\ tested = "ok" /\ Len(outcomes) = Len(ftp_servers)

SomeSuccess == \E k \in 1..Len(outcomes) : ~Failed(outcomes[k])

SomeFailure == \E k \in 1..Len(outcomes) : Failed(outcomes[k])

C2_TestConnectionFirst ==
    /\ outcomes # <<>> => tested = "ok"
    /\ load_calls > 0 => tested = "ok"
    /\ tested = "failed" =>
           /\ pc = "done"
           /\ raised = Err("OperationalError", "test_connection")
           /\ outcomes = <<>>
           /\ load_calls = 0

C2_Witness == tested = "failed" /\ pc = "done" /\ Len(ftp_servers) = 2

C4_PartialSuccessLoads ==
    LoopFinished /\ SomeSuccess /\ SomeFailure =>
        /\ load_calls = 1
        /\ \A r \in 1..Len(loaded.rows) :
               \E k \in 1..Len(outcomes) :
                   outcomes[k].src = loaded.rows[r].src /\ ~Failed(outcomes[k])
        /\ \A r1, r2 \in 1..Len(loaded.rows) :
               r1 < r2 => loaded.rows[r1].src <= loaded.rows[r2].src

\* C5: the loaded table is the merged table cut down to the first row, in merge
\* order, of each distinct id value (of each distinct full row when the merged
\* table has no id column); every such first row is kept, in order.
C5_CrossSourceDedup ==
    load_calls > 0 =>
        LET m == Concat(all_dfs)
            key(r) == IF HasCol(m, id) THEN <<Cell(m, r, id)>> ELSE r.vals
            first == {j \in 1..Len(m.rows) :
                         \A h \in 1..(j - 1) : key(m.rows[h]) # key(m.rows[j])}
        IN  /\ loaded.cols = m.cols
            /\ \A j \in first : \E r \in 1..Len(loaded.rows) : loaded.rows[r] = m.rows[j]
            /\ \A r \in 1..Len(loaded.rows) : \E j \in first : loaded.rows[r] = m.rows[j]
            /\ \A r1, r2 \in 1..Len(loaded.rows) :
                   r1 < r2 => /\ loaded.rows[r1].idx < loaded.rows[r2].idx
                              /\ key(loaded.rows[r1]) # key(loaded.rows[r2])

\* two sources delivered a row with the same id and the later one was dropped
C5_Witness ==
    /\ load_calls > 0
    /\ HasCol(loaded, id)
    /\ LET m == Concat(all_dfs)
       IN  /\ Len(loaded.rows) < Len(m.rows)
           /\ \E r1, r2 \in 1..Len(m.rows) :
                  /\ m.rows[r1].src < m.rows[r2].src
                  /\ Cell(m, m.rows[r1], id) = Cell(m, m.rows[r2], id)
                  /\ \E r \in 1..Len(loaded.rows) : loaded.rows[r] = m.rows[r1]

\* C10: every connection an extract() call opened is closed again when the
\* call returns or raises.
C10_ConnectionsReleased == open = {}

\* a descriptor that has every required key and a type other than ftp, sftp
UnknownType(cfg) == cfg.keys_ok /\ cfg.type \notin {"ftp", "sftp"}

\* C11: a source of type ftp is extracted over the FTP path and one of type
\* sftp over the SFTP path; a source of any other type fails with a
\* ConfigurationError with no connection attempted, and that error is fatal:
\* it is raised to the caller of run_etl, the run ends at that source, and no
\* source of the run has been contacted over the network.
C11_UnknownTypeFatal ==
    \A k \in 1..Len(outcomes) :
        LET cfg == ftp_servers[k]
            o == outcomes[k]
        IN  /\ cfg.keys_ok /\ cfg.type = "ftp" => o.path = "ftp"
            /\ cfg.keys_ok /\ cfg.type = "sftp" => o.path = "sftp"
            /\ UnknownType(cfg) =>
                   /\ o.path = "none"
                   /\ ~o.net
                   /\ o.err.type = "ConfigurationError"
                   /\ raised = o.err
                   /\ pc = "done"
                   /\ k = Len(outcomes)
                   /\ load_calls = 0
                   /\ \A h \in 1..Len(outcomes) : ~outcomes[h].net

\* ------------------------------------------------ claims about normalize
Returned == n_pc = "done" /\ n_out.raised = "none"

\* lower-case, no whitespace at either end, no space character
IsStandardName(s) ==
    /\ \A j \in 1..Len(s) : s[j] \notin UpperChars /\ s[j] # " "
    /\ s # <<>> => s[1] \notin Whitespace /\ s[Len(s)] \notin Whitespace

\* C6: normalize raises for no well-formed table and no rule set, also when
\* the rules name columns the table does not have.
C6_NeverRaises == n_pc = "done" => n_out.raised = "none"

\* C7: with required_columns non-empty, a row null in every listed column is
\* not in the output and a row non-null in a listed column is in it once (the
\* first of each group of identical rows stands for the group); with
\* required_columns empty no row is dropped for nulls.
C7_RequiredFilter ==
    n_pc = "done" =>
        LET t1 == StandardizeColumns(n_df)
            req == n_rules.required_columns
            AllNull(r) ==
                \A c \in 1..Len(t1.cols) : t1.cols[c] \in req => IsNull(r.vals[c])
            FirstOfItsKind(j) ==
                \A h \in 1..(j - 1) : t1.rows[h].vals # t1.rows[j].vals
            Kept(j) ==
                Cardinality({r \in 1..Len(n_out.df.rows) :
                                n_out.df.rows[r].idx = t1.rows[j].idx})
        IN  \A j \in 1..Len(t1.rows) :
                FirstOfItsKind(j) =>
                    IF req # {} /\ AllNull(t1.rows[j])
                    THEN Kept(j) = 0
                    ELSE Kept(j) = 1

\* C8 as stated: every column name of the returned table is lower-case, has no
\* whitespace at either end and no space character, renamed columns included.
C8_AllNamesStandard ==
    Returned => \A c \in 1..Len(n_out.df.cols) : IsStandardName(n_out.df.cols[c])

\* C8 as amended: every column name of the returned table that was not put
\* there by a column_mapping entry is lower-case, has no whitespace at either
\* end and no space character; a renamed column carries the target name of
\* its mapping entry as the rule set spells it.
C8_NamesStandardUnlessRenamed ==
    Returned =>
        \A c \in 1..Len(n_out.df.cols) :
            IF c <= Len(n_df.cols)
               /\ StandardizeName(n_df.cols[c]) \in DOMAIN n_rules.column_mapping
            THEN n_out.df.cols[c] = n_rules.column_mapping[StandardizeName(n_df.cols[c])]
            ELSE IsStandardName(n_out.df.cols[c])

\* a returned table with a raw name that needed all three of strip, lower and
\* replace, and with a column renamed to a target that is not in standard form
C8_Witness ==
    /\ Returned
    /\ \E c \in 1..Len(n_df.cols) : n_df.cols[c] = RawAB /\ n_out.df.cols[c] = colAB
    /\ \E c \in 1..Len(n_df.cols) :
           n_df.cols[c] = RawPadA /\ ~IsStandardName(n_out.df.cols[c])

\* C9: for every column_mapping entry a -> b whose source a is a standardized
\* column of the table, the output has no column a and exactly one column b,
\* holding a's values; the other columns keep their names and values.
C9_RenameExact ==
    Returned =>
        LET std == StandardizeColumns(n_df).cols
            m == n_rules.column_mapping
            out == n_out.df
            \* the same call without renaming and default fill
            plain == Normalize(n_df,
                               [n_rules EXCEPT !.column_mapping = <<>>,
                                               !.default_values = <<>>],
                               Stamp(clock)).df
            SameValues(c) ==
                \A r \in 1..Len(out.rows) :
                    \/ out.rows[r].vals[c] = plain.rows[r].vals[c]
                    \/ /\ IsNull(plain.rows[r].vals[c])
                       /\ out.cols[c] \in DOMAIN n_rules.default_values
                       /\ out.rows[r].vals[c] = n_rules.default_values[out.cols[c]]
        IN  /\ \A c \in 1..Len(std) :
                /\ out.cols[c] = IF std[c] \in DOMAIN m THEN m[std[c]] ELSE std[c]
                /\ SameValues(c)
            /\ \A a \in DOMAIN m :
                   (\E c \in 1..Len(std) : std[c] = a) =>
                       /\ \A c \in 1..Len(out.cols) : out.cols[c] # a
                       /\ Cardinality({c \in 1..Len(out.cols) : out.cols[c] = m[a]}) = 1

====
